---- MODULE Spec2Model ----
(***************************************************************************)
(* PopupMenuTable (src/widgets/PopupMenuTable.h): a table lazily builds    *)
(* and owns an ordered sequence of menu entries (mContents); BuildMenu and *)
(* ExtendMenu fold the entries of a table into the rows of a native menu.  *)
(***************************************************************************)
EXTENDS Integers, Sequences, FiniteSets, TLC

VARIABLES decl, mCaption, mContents, nPopulate, queried, ret, pops, menu, log

vars == <<decl, mCaption, mContents, nPopulate, queried, ret, pops, menu, log>>

(* ------------------------------ bounds --------------------------------- *)
\* longest Populate body (number of macro calls between BEGIN_ and END_)
MaxBody == 2
\* longest Populate body of the table that is used as a submenu
MaxSubBody == 1
\* pUserData values are 0..MaxData, 0 being NULL
MaxData == 1
\* most ExtendMenu calls applied to one built menu
MaxExtend == 1
\* most runs of Populate recorded for one table
MaxPops == 2

(* ------------------------------ values --------------------------------- *)
\* the table classes of the usage comment
Tables == {"MyTable", "OtherTable"}
\* the classes a table's POPUP_MENU_SUB_MENU may name (acyclic)
SubTablesOf(t) == IF t = "MyTable" THEN {"OtherTable"} ELSE {}
\* caption argument each table's constructor is called with
CaptionArg(t) == IF t = "MyTable" THEN "" ELSE "Other"
\* the id argument a table writes in its item, radio-item and check-item
\* declarations (an enumerator of the table class, one per handler)
ItemId(m) ==
    CASE m = "POPUP_MENU_ITEM" -> 1
      [] m = "POPUP_MENU_RADIO_ITEM" -> 2
      [] OTHER -> 3
\* the string argument written next to item identifier i
ItemString(i) ==
    CASE i = 1 -> "Cu&t"
      [] i = 2 -> "&Radio"
      [] OTHER -> "&Check"

nullptr == "nullptr"
nullfn == 0
None == <<>>
Some(x) == <<x>>

(* --------------------------- PopupMenuTableEntry ----------------------- *)
Entry(type_, id_, caption_, func_, subTable_) ==
    [type |-> type_, id |-> id_, caption |-> caption_,
     func |-> func_, subTable |-> subTable_]

\* (variant: CheckItem left out of the test)
IsItem_NoCheck(e) == e.type = "Item" \/ e.type = "RadioItem"

IsItem(e) == e.type = "Item" \/ e.type = "RadioItem" \/ e.type = "CheckItem"
IsSubMenu(e) == e.type = "SubMenu"
\* (variant: the kind compared against the wrong enumerator)
IsValid_OffByOne(e) == e.type # "Invalid" /\ e.type # "SubMenu"

IsValid(e) == e.type # "Invalid"

(* ----------------------- the declaration macros ------------------------ *)
Call(m, i, c) == [macro |-> m, id |-> i, classname |-> c]

ItemMacros == {"POPUP_MENU_ITEM", "POPUP_MENU_RADIO_ITEM", "POPUP_MENU_CHECK_ITEM"}

\* the macro calls that may stand in the Populate body of table t
Calls(t) ==
    {Call(m, ItemId(m), "") : m \in ItemMacros}
        \cup {Call("BEGIN_POPUP_MENU_SECTION", -1, "")}
        \cup {Call("POPUP_MENU_SUB_MENU", -1, c) : c \in SubTablesOf(t)}

BodyLen(t) == IF SubTablesOf(t) = {} THEN MaxSubBody ELSE MaxBody

Bodies(t) == UNION {[1..n -> Calls(t)] : n \in 0..BodyLen(t)}

\* address of the member function written for item id i: never null
MemFn(i) == i

\* (variant: the entry inserted at the front)
POPUP_MENU_APPEND_Front(v, type, id, string, memFn, subTable) ==
    <<Entry(type, id, string, memFn, subTable)>> \o v

POPUP_MENU_APPEND(v, type, id, string, memFn, subTable) ==
    Append(v, Entry(type, id, string, memFn, subTable))

POPUP_MENU_APPEND_ITEM(v, type, id, string, memFn) ==
    POPUP_MENU_APPEND(v, type, id, string, memFn, nullptr)

POPUP_MENU_ITEM(v, id, string, memFn) ==
    POPUP_MENU_APPEND_ITEM(v, "Item", id, string, memFn)

POPUP_MENU_RADIO_ITEM(v, id, string, memFn) ==
    POPUP_MENU_APPEND_ITEM(v, "RadioItem", id, string, memFn)

POPUP_MENU_CHECK_ITEM(v, id, string, memFn) ==
    POPUP_MENU_APPEND_ITEM(v, "CheckItem", id, string, memFn)

Caption(captions, t) == captions[t]

\* (variant: the caption left empty)
POPUP_MENU_SUB_MENU_NoCaption(v, captions, classname) ==
    POPUP_MENU_APPEND(v, "SubMenu", -1, "", nullfn, classname)

POPUP_MENU_SUB_MENU(v, captions, classname) ==
    POPUP_MENU_APPEND(v, "SubMenu", -1, Caption(captions, classname), nullfn, classname)

BEGIN_POPUP_MENU_SECTION(v) ==
    POPUP_MENU_APPEND(v, "Separator", -1, "", nullfn, nullptr)

\* (variant: the function closed without appending the terminator)
END_POPUP_MENU_None(v) == v

END_POPUP_MENU(v) ==
    POPUP_MENU_APPEND(v, "Invalid", -1, "", nullfn, nullptr)

\* one statement of a Populate body
Expand(v, captions, c) ==
    CASE c.macro = "POPUP_MENU_ITEM" ->
            POPUP_MENU_ITEM(v, c.id, ItemString(c.id), MemFn(c.id))
      [] c.macro = "POPUP_MENU_RADIO_ITEM" ->
            POPUP_MENU_RADIO_ITEM(v, c.id, ItemString(c.id), MemFn(c.id))
      [] c.macro = "POPUP_MENU_CHECK_ITEM" ->
            POPUP_MENU_CHECK_ITEM(v, c.id, ItemString(c.id), MemFn(c.id))
      [] c.macro = "POPUP_MENU_SUB_MENU" ->
            POPUP_MENU_SUB_MENU(v, captions, c.classname)
      [] OTHER -> BEGIN_POPUP_MENU_SECTION(v)

RECURSIVE RunBody(_, _, _)
RunBody(v, captions, body) ==
    IF body = <<>> THEN v
    ELSE RunBody(Expand(v, captions, Head(body)), captions, Tail(body))

\* BEGIN_POPUP_MENU(t) body END_POPUP_MENU(), run on the contents v
PopulateBody(v, captions, body) == END_POPUP_MENU(RunBody(v, captions, body))

(* --------------------------- the table object -------------------------- *)
Ev(op_, t, a) == [op |-> op_, table |-> t, arg |-> a]

\* the mutable part of the program state, threaded through the calls
\* (nPopulate, queried, ret, pops and log record the calls made:
\*  nPopulate[t]  runs of t's Populate since construction or the last Clear
\*  queried[t]    Get was called on t since construction or the last Clear
\*  ret[t]        what the last Get on t returned
\*  pops[t]       the contents each run of t's Populate left
\*  log           the calls made by the last operation, in order)
Cur == [mContents |-> mContents, nPopulate |-> nPopulate, queried |-> queried,
        ret |-> ret, pops |-> pops, log |-> log]

Populate(S, t) ==
    LET v == PopulateBody(S.mContents[t], mCaption, decl[t])
    IN [S EXCEPT !.mContents[t] = v,
                 !.nPopulate[t] = @ + 1,
                 !.pops[t] = Append(@, v),
                 !.log = Append(@, Ev("Populate", t, -1))]

\* (variant: Populate called on every Get)
GetOp_Always(S, t) ==
    LET S1 == [S EXCEPT !.log = Append(@, Ev("Get", t, -1))]
        S2 == Populate(S1, t)
    IN [S2 EXCEPT !.ret[t] = Some(S2.mContents[t]), !.queried[t] = TRUE]

\* (variant: the emptiness test inverted)
GetOp_Inverted(S, t) ==
    LET S1 == [S EXCEPT !.log = Append(@, Ev("Get", t, -1))]
        S2 == IF S1.mContents[t] # <<>> THEN Populate(S1, t) ELSE S1
    IN [S2 EXCEPT !.ret[t] = Some(S2.mContents[t]), !.queried[t] = TRUE]

GetOp(S, t) ==
    LET S1 == [S EXCEPT !.log = Append(@, Ev("Get", t, -1))]
        S2 == IF S1.mContents[t] = <<>> THEN Populate(S1, t) ELSE S1
    IN [S2 EXCEPT !.ret[t] = Some(S2.mContents[t]), !.queried[t] = TRUE]

\* (variant: the contents not cleared)
ClearOp_Keep(S, t) ==
    [S EXCEPT !.nPopulate[t] = 0,
              !.queried[t] = FALSE,
              !.log = Append(@, Ev("Clear", t, -1))]

ClearOp(S, t) ==
    [S EXCEPT !.mContents[t] = <<>>,
              !.nPopulate[t] = 0,
              !.queried[t] = FALSE,
              !.log = Append(@, Ev("Clear", t, -1))]

Commit(S) ==
    /\ mContents' = S.mContents
    /\ nPopulate' = S.nPopulate
    /\ queried' = S.queried
    /\ ret' = S.ret
    /\ pops' = S.pops
    /\ log' = S.log

Start == [Cur EXCEPT !.log = <<>>]

\* the recorded runs of Populate stay within MaxPops
Bounded(t) ==
    \/ Len(pops[t]) < MaxPops
    \/ Len(pops[t]) = MaxPops /\ mContents[t] # <<>>

Init ==
    /\ decl \in [Tables -> UNION {Bodies(t) : t \in Tables}]
    /\ \A t \in Tables : decl[t] \in Bodies(t)
    /\ mCaption = [t \in Tables |-> CaptionArg(t)]
    /\ mContents = [t \in Tables |-> <<>>]
    /\ nPopulate = [t \in Tables |-> 0]
    /\ queried = [t \in Tables |-> FALSE]
    /\ ret = [t \in Tables |-> None]
    /\ pops = [t \in Tables |-> <<>>]
    /\ menu = [built |-> FALSE, pUserData |-> 0, rows |-> <<>>, nExtend |-> 0]
    /\ log = <<>>

Get(t) ==
    /\ Bounded(t)
    /\ Commit(GetOp(Start, t))
    /\ UNCHANGED <<decl, mCaption, menu>>

Clear(t) ==
    /\ Commit(ClearOp(Start, t))
    /\ UNCHANGED <<decl, mCaption, menu>>

(* ------------------------- the native menu ----------------------------- *)
Row(kind_, id_, caption_, table_, func_, sub_) ==
    [kind |-> kind_, id |-> id_, caption |-> caption_,
     table |-> table_, func |-> func_, sub |-> sub_]

InitUserData(S, t, pUserData) ==
    [S EXCEPT !.log = Append(@, Ev("InitUserData", t, pUserData))]

\* the row that one valid entry of table t adds to a menu; sub is the
\* already built submenu of a SubMenu entry
RowOf(t, e, sub) ==
    IF IsItem(e) THEN Row(e.type, e.id, e.caption, t, e.func, <<>>)
    ELSE IF IsSubMenu(e) THEN Row("SubMenu", -1, e.caption, nullptr, nullfn, sub)
    ELSE Row("Separator", -1, "", nullptr, nullfn, <<>>)

AppendRow(rows, r) == Append(rows, r)

RECURSIVE Extend(_, _, _)
RECURSIVE AppendEntries(_, _, _, _, _)

\* (variant: InitUserData called after the entries are appended)
Extend_InitLast(R, t, pUserData) ==
    LET S2 == GetOp(R.S, t)
        A == AppendEntries([S |-> S2, rows |-> R.rows], t, pUserData, S2.mContents[t], 1)
    IN [S |-> InitUserData(A.S, t, pUserData), rows |-> A.rows]

\* R = [S, rows]: the program state and the rows of the menu being filled
Extend(R, t, pUserData) ==
    LET S1 == InitUserData(R.S, t, pUserData)
        S2 == GetOp(S1, t)
    IN AppendEntries([S |-> S2, rows |-> R.rows], t, pUserData, S2.mContents[t], 1)

AppendEntries(R, t, pUserData, entries, k) ==
    IF k > Len(entries) \/ ~IsValid(entries[k]) THEN R
    ELSE LET e == entries[k]
             B == IF IsSubMenu(e)
                  THEN Extend([S |-> [R.S EXCEPT !.log =
                                         Append(@, Ev("BuildMenu", e.subTable, pUserData))],
                               rows |-> <<>>],
                              e.subTable, pUserData)
                  ELSE [S |-> R.S, rows |-> <<>>]
             S3 == [B.S EXCEPT !.log = Append(@, Ev("Append", t, k))]
         IN AppendEntries([S |-> S3, rows |-> AppendRow(R.rows, RowOf(t, e, B.rows))],
                          t, pUserData, entries, k + 1)

BuildMenu(pTable, pUserData) ==
    /\ \A u \in Tables : Bounded(u)
    /\ LET S0 == [Cur EXCEPT !.log = <<Ev("BuildMenu", pTable, pUserData)>>]
           R == Extend([S |-> S0, rows |-> <<>>], pTable, pUserData)
       IN /\ Commit(R.S)
          /\ menu' = [built |-> TRUE, pUserData |-> pUserData,
                      rows |-> R.rows, nExtend |-> 0]
    /\ UNCHANGED <<decl, mCaption>>

ExtendMenu(otherTable) ==
    /\ menu.built
    /\ menu.nExtend < MaxExtend
    /\ \A u \in Tables : Bounded(u)
    /\ LET S0 == [Cur EXCEPT !.log = <<Ev("ExtendMenu", otherTable, -1)>>]
           R == Extend([S |-> S0, rows |-> menu.rows], otherTable, menu.pUserData)
       IN /\ Commit(R.S)
          /\ menu' = [menu EXCEPT !.rows = R.rows, !.nExtend = @ + 1]
    /\ UNCHANGED <<decl, mCaption>>

\* the operations of a table
NextTable ==
    \/ \E t \in Tables : Get(t)
    \/ \E t \in Tables : Clear(t)

\* the operations on a native menu
NextMenu ==
    \/ \E t \in Tables, d \in 0..MaxData : BuildMenu(t, d)
    \/ \E t \in Tables : ExtendMenu(t)

Next == NextTable \/ NextMenu

Spec == Init /\ [][Next]_vars

\* tables queried and cleared by their owners
SpecTable == Init /\ [][NextTable]_vars

\* menus built and extended from the tables
SpecMenu == Init /\ [][NextMenu]_vars

(* ============================ properties =============================== *)
\* the calls to op on table t that the log l records
Evs(l, op_, t) == {i \in 1..Len(l) : l[i].op = op_ /\ l[i].table = t}

\* the entries now held by the tables
AllEntries == UNION {{mContents[t][k] : k \in 1..Len(mContents[t])} : t \in Tables}

\* the entry that the macro call c of a Populate body declares
Declared(c, type_) ==
    CASE c.macro = "POPUP_MENU_ITEM" -> type_ = "Item"
      [] c.macro = "POPUP_MENU_RADIO_ITEM" -> type_ = "RadioItem"
      [] c.macro = "POPUP_MENU_CHECK_ITEM" -> type_ = "CheckItem"
      [] c.macro = "POPUP_MENU_SUB_MENU" -> type_ = "SubMenu"
      [] OTHER -> type_ = "Separator"

\* the entries of v that are rows of a menu, in the order of v
RowEntries(v) == SelectSeq(v, LAMBDA e : e.type # "Invalid")

\* rows are the rows of the entries es, one for one and in order
RECURSIVE RowsOf(_, _)
RowsOf(rows, es) ==
    /\ Len(rows) = Len(es)
    /\ \A k \in 1..Len(es) :
          /\ rows[k].kind = es[k].type
          /\ rows[k].id = es[k].id
          /\ rows[k].caption = es[k].caption
          /\ rows[k].func = es[k].func
          /\ es[k].type = "SubMenu" =>
                /\ ret[es[k].subTable] # None
                /\ RowsOf(rows[k].sub, RowEntries(ret[es[k].subTable][1]))

\* C1: over Get calls with no Clear in between, Populate runs exactly once,
\* on the first Get; every later Get runs no Populate and returns the same
\* sequence as the Get before it.
C1_PopulateOnce ==
    [][\A t \in Tables :
          Evs(log', "Get", t) # {} =>
             /\ nPopulate'[t] = 1
             /\ queried[t] =>
                   /\ Evs(log', "Populate", t) = {}
                   /\ ret'[t] = ret[t]
                   /\ pops'[t] = pops[t]
             /\ ~queried[t] => Cardinality(Evs(log', "Populate", t)) = 1]_vars

\* a later Get: the table was populated by an earlier operation and the last
\* operation was a Get on it that ran no Populate
C1_Witness ==
    \E t \in Tables :
        /\ log = <<Ev("Get", t, -1)>>
        /\ nPopulate[t] = 1
        /\ Len(decl[t]) = MaxBody
        /\ ret[t] = Some(pops[t][1])

\* C2: a constructed table has run no Populate and holds no entries until
\* its first Get; the first Get runs Populate and returns what that run built.
C2_Lazy ==
    /\ [](\A t \in Tables :
            ret[t] = None => mContents[t] = <<>> /\ pops[t] = <<>> /\ nPopulate[t] = 0)
    /\ [][\A t \in Tables :
            (ret[t] = None /\ ret'[t] # None) =>
               /\ Len(pops'[t]) = 1
               /\ ret'[t] = Some(pops'[t][1])
               /\ ret'[t] = Some(mContents'[t])
               /\ \E i \in Evs(log', "Get", t) :
                     \A j \in Evs(log', "Populate", t) : i < j]_vars

\* the first Get on a table whose body declares entries
C2_Witness ==
    \E t \in Tables :
        /\ log = <<Ev("Get", t, -1), Ev("Populate", t, -1)>>
        /\ Len(pops[t]) = 1
        /\ Len(decl[t]) = MaxBody
        /\ ret[t] = Some(pops[t][1])
        /\ \E u \in Tables : ret[u] = None

\* C5: the sequence Get returns holds one entry per macro call of the
\* Populate body, at the position of that call, followed by the terminator.
C5_DeclaredOrder ==
    \A t \in Tables :
        ret[t] # None =>
            LET v == ret[t][1]
            IN /\ Len(v) = Len(decl[t]) + 1
               /\ \A k \in 1..Len(decl[t]) :
                     /\ Declared(decl[t][k], v[k].type)
                     /\ v[k].id = decl[t][k].id
                     /\ v[k].type = "SubMenu" => v[k].subTable = decl[t][k].classname

\* Get returned a sequence of two different declared entries
C5_Witness ==
    \E t \in Tables :
        /\ ret[t] # None
        /\ Len(decl[t]) = 2
        /\ decl[t][1].macro # decl[t][2].macro
        /\ ret[t][1][1].type # ret[t][1][2].type

\* C6: Clear leaves the sequence empty; the Get after it runs Populate again
\* and returns a sequence equal to the first population; only Clear and
\* Populate change the sequence.
C6_Rebuild ==
    [][\A t \in Tables :
          /\ log'[1] = Ev("Clear", t, -1) => mContents'[t] = <<>>
          /\ (Evs(log', "Get", t) # {} /\ ~queried[t]) =>
                /\ Len(pops'[t]) = Len(pops[t]) + 1
                /\ ret'[t] = Some(pops'[t][1])
                /\ mContents'[t] = pops'[t][1]
          /\ mContents'[t] # mContents[t] =>
                Evs(log', "Clear", t) # {} \/ Evs(log', "Populate", t) # {}]_vars

\* a table rebuilt after Clear: its Populate ran a second time
C6_Witness ==
    \E t \in Tables :
        /\ Len(pops[t]) = 2
        /\ Len(decl[t]) = MaxBody
        /\ Evs(log, "Populate", t) # {}
        /\ ret[t] = Some(pops[t][2])
        /\ mContents[t] = pops[t][1]

\* C8: every run of Populate leaves a non-empty sequence whose last entry is
\* Invalid (id -1, no handler, no sub-table) and whose other entries are not.
C8_Terminator ==
    \A t \in Tables : \A n \in 1..Len(pops[t]) :
        LET v == pops[t][n]
        IN /\ v # <<>>
           /\ v[Len(v)] = Entry("Invalid", -1, "", nullfn, nullptr)
           /\ \A k \in 1..(Len(v) - 1) : v[k].type # "Invalid"

\* Populate ran on a body that declares entries
C8_Witness ==
    \E t \in Tables :
        /\ pops[t] # <<>>
        /\ Len(pops[t][1]) = MaxBody + 1

\* C9: IsItem holds exactly for Item, RadioItem and CheckItem, IsSubMenu
\* exactly for SubMenu, IsValid exactly for the kinds other than Invalid.
C9_KindPredicates ==
    \A e \in AllEntries :
        /\ IsItem(e) <=> e.type \in {"Item", "RadioItem", "CheckItem"}
        /\ IsSubMenu(e) <=> e.type = "SubMenu"
        /\ IsValid(e) <=> e.type \in {"Item", "RadioItem", "CheckItem", "Separator", "SubMenu"}
        /\ ~(IsItem(e) /\ IsSubMenu(e))
        /\ (IsItem(e) \/ IsSubMenu(e)) => IsValid(e)
        /\ e.type = "Separator" => (IsValid(e) /\ ~IsItem(e) /\ ~IsSubMenu(e))

\* the tables hold entries of four kinds at once, a Separator among them
C9_Witness ==
    /\ \E e \in AllEntries : e.type = "Separator"
    /\ \E e \in AllEntries : e.type = "CheckItem"
    /\ \E e \in AllEntries : e.type = "SubMenu"
    /\ Cardinality({e.type : e \in AllEntries}) = 4

\* C10: item entries carry a handler and no sub-table; a SubMenu entry
\* carries id -1, no handler, a sub-table and that sub-table's caption;
\* Separator and Invalid entries carry id -1 and nothing else.
C10_WellFormed ==
    \A e \in AllEntries :
        /\ IsItem(e) => (e.func # nullfn /\ e.subTable = nullptr)
        /\ e.type = "SubMenu" =>
              /\ e.id = -1
              /\ e.func = nullfn
              /\ e.subTable \in Tables
              /\ e.caption = mCaption[e.subTable]
        /\ e.type \in {"Separator", "Invalid"} =>
              e = Entry(e.type, -1, "", nullfn, nullptr)
        /\ e.subTable # nullptr <=> IsSubMenu(e)

\* a table holds an item entry and a SubMenu entry
C10_Witness ==
    /\ \E e \in AllEntries : e.type = "SubMenu" /\ e.caption = "Other"
    /\ \E e \in AllEntries : e.type = "Item"
    /\ \E e \in AllEntries : e.type = "Separator"

\* C3: the menu BuildMenu returns holds one row per item, radio-item,
\* check-item, separator and submenu entry of the sequence Get returns, in
\* the order of that sequence (and so do its submenus).
C3_BuildOrder ==
    (log # <<>> /\ log[1].op = "BuildMenu") =>
        /\ menu.built
        /\ ret[log[1].table] # None
        /\ RowsOf(menu.rows, RowEntries(ret[log[1].table][1]))

\* BuildMenu built a menu of two different rows, one of them a submenu
\* that has a row
C3_Witness ==
    /\ log # <<>> /\ log[1].op = "BuildMenu"
    /\ Len(menu.rows) = 2
    /\ menu.rows[1].kind # menu.rows[2].kind
    /\ \E k \in 1..2 : menu.rows[k].sub # <<>>

\* C4: ExtendMenu leaves every row of the menu at its position and adds the
\* rows of otherTable's entries after them, in otherTable's order.
C4_ExtendAppends ==
    [][(log'[1].op = "ExtendMenu") =>
          LET n == Len(menu.rows)
              t == log'[1].table
          IN /\ Len(menu'.rows) >= n
             /\ SubSeq(menu'.rows, 1, n) = menu.rows
             /\ ret'[t] # None
             /\ RowsOf(SubSeq(menu'.rows, n + 1, Len(menu'.rows)),
                       RowEntries(ret'[t][1]))]_vars

\* ExtendMenu added two rows to a menu that had rows
C4_Witness ==
    /\ log # <<>> /\ log[1].op = "ExtendMenu"
    /\ menu.nExtend = 1
    /\ Len(menu.rows) = 3
    /\ Cardinality(Evs(log, "Append", log[1].table)) = 2

\* C7: during BuildMenu(pParent, pTable, pUserData) every row of a table is
\* appended after that table's InitUserData was called, and InitUserData is
\* called with the pUserData given to BuildMenu.
C7_InitUserDataFirst ==
    (log # <<>> /\ log[1].op = "BuildMenu") =>
        /\ Evs(log, "InitUserData", log[1].table) # {}
        /\ \A i \in 1..Len(log) :
              /\ log[i].op = "InitUserData" => log[i].arg = log[1].arg
              /\ log[i].op = "Append" =>
                    \E j \in Evs(log, "InitUserData", log[i].table) : j < i

\* BuildMenu was given a non-null pUserData and appended rows of two tables
C7_Witness ==
    /\ log # <<>> /\ log[1].op = "BuildMenu" /\ log[1].arg # 0
    /\ \A t \in Tables : Evs(log, "Append", t) # {}
====
